---- MODULE Spec2Model ----
(***************************************************************************)
(* A model of the product-search orchestrator of ecom-tts and of its       *)
(* semantic engine:                                                        *)
(*   - RecommendationService._calculate_combined_score  (SpecFusion)       *)
(*   - RecommendationService.combine_results            (Spec)             *)
(*   - the POST /api/v1/search handler search_products  (SpecSearch)       *)
(*   - LLMService.score_relevance                       (SpecScore)        *)
(*   - create_product and create_products_batch         (SpecCreate)       *)
(*   - the semantic engine: add, delete, get            (SpecEngine)       *)
(*   - LLMService.generate_cypher                       (SpecCypher)       *)
(*   - VectorStore.upsert_products                      (SpecUpsert)       *)
(*   - get_vector_store called from several threads     (SpecSingleton)    *)
(* SpecSearchLive is SpecSearch with weak fairness of the request's steps. *)
(*                                                                         *)
(* Numbers.  Python floats are modelled as fixed-point integers in         *)
(* millionths: 1.0 is One = 1000000, 0.05 is 50000.  The weights are kept  *)
(* in hundredths (0.5 is 50) so that weight * score stays inside TLC's     *)
(* 32-bit integers; every score the model draws is a multiple of 0.00001,  *)
(* for which the weighted sums below are exact.                            *)
(*                                                                         *)
(* Dictionaries.  A result dict is a function from AttrKeys to strings,    *)
(* with Absent standing for "key not in the dict" and NoneV for a key      *)
(* whose value is None.  The "score" key of a vector result is kept beside *)
(* the dict, because the code reads it once (line 48) and never again.     *)
(* The keys brand, price, description, color follow the same .get pattern  *)
(* as name and category and are left out.                                  *)
(***************************************************************************)
EXTENDS Integers, Sequences, FiniteSets, TLC

VARIABLES
    pc,                 \* position of the running call / request
    config,             \* RecommendationService fields: the weights and the boost
    fusion,             \* one _calculate_combined_score call: its arguments and result
    semantic_results,   \* combine_results argument (list of dicts, mutable)
    graph_results,      \* combine_results argument (list of dicts, mutable)
    limit,              \* combine_results argument
    input_semantic,     \* the semantic list as it was passed (history)
    input_graph,        \* the graph list as it was passed (history)
    product_scores,     \* the insertion-ordered dict of line 30, as a sequence of entries
    scored_products,    \* the list of line 65
    final_results,      \* the list of line 100
    i,                  \* index of the running loop (1-based)
    reply,              \* what the scoring call awaited last came back with
    request,            \* the ProductQueryRequest of the search request
    llm_provider,       \* where the handler's llm_service parameter comes from
    clients,            \* the handles of the request: "none", "open" or "closed"
    translation,        \* the two generation calls: done or not, and their results
    adapters,           \* how each adapter call ended: "pending", "ok" or "failed"
    response,           \* what the caller of the search request gets
    create,             \* one create request of the orchestrator (single or batch)
    engine,             \* the semantic engine: its stored points and its last request
    scoring,            \* one score_relevance call: the reply it parses and its result
    generation,         \* one generate_cypher call: the reply it cleans and its result
    upsert,             \* one VectorStore.upsert_products call
    singleton           \* the module global _vector_store and the threads asking for it

combineVars == <<semantic_results, graph_results, limit, input_semantic, input_graph,
                 product_scores, scored_products, final_results, i, reply>>

requestVars == <<request, llm_provider, clients, translation, adapters, response>>

serviceVars == <<create, engine, scoring>>

unitVars == <<generation, upsert, singleton>>

vars == <<pc, config, fusion, semantic_results, graph_results, limit, input_semantic,
          input_graph, product_scores, scored_products, final_results, i, reply,
          request, llm_provider, clients, translation, adapters, response,
          create, engine, scoring, generation, upsert, singleton>>

(***************************************************************************)
(* Bounds of the model.                                                    *)
(***************************************************************************)
\* The two adapter lists hold at most MaxResults records together.
MaxResults == 3
\* The largest limit a call is given (the smallest is -1: nothing validates it).
MaxLimit == 2

(***************************************************************************)
(* Fixed-point numbers.                                                    *)
(***************************************************************************)
One == 1000000
WeightOne == 100
DefaultScore == 500000

Min(a, b) == IF a <= b THEN a ELSE b
Max(a, b) == IF a >= b THEN a ELSE b

\* round(x, 4): to the nearest multiple of 0.0001, ties to the even neighbour.
Round4(x) ==
    LET q == x \div 100
        r == x % 100
    IN  IF r < 50 THEN q * 100
        ELSE IF r > 50 THEN (q + 1) * 100
        ELSE IF q % 2 = 0 THEN q * 100 ELSE (q + 1) * 100

(***************************************************************************)
(* RecommendationService.__init__ / get_recommendation_service.            *)
(***************************************************************************)
DefaultConfig == [semantic_weight |-> 50, graph_weight |-> 50, diversity_boost |-> 50000]

\* Other weights a RecommendationService can be constructed with.
Configs == {DefaultConfig,
            [semantic_weight |-> 70, graph_weight |-> 30, diversity_boost |-> 100000]}

Sources == {"semantic", "graph"}

\* The value of fusion while no separate _calculate_combined_score call is modelled.
NoFusion == [pc |-> "idle", semantic_score |-> 0, graph_score |-> 0,
             sources |-> {}, result |-> 0]

(***************************************************************************)
(* RecommendationService._calculate_combined_score.                        *)
(***************************************************************************)
CalculateCombinedScoreNoBoost(cfg, semantic_score, graph_score, sources) ==
    LET has_semantic == "semantic" \in sources
        has_graph == "graph" \in sources
        combined == IF has_semantic /\ has_graph
                    THEN (cfg.semantic_weight * semantic_score
                          + cfg.graph_weight * graph_score) \div WeightOne
                    ELSE IF has_semantic THEN semantic_score
                    ELSE IF has_graph THEN graph_score
                    ELSE 0
    IN  Min(combined, One)

CalculateCombinedScoreBoostAlways(cfg, semantic_score, graph_score, sources) ==
    LET has_semantic == "semantic" \in sources
        has_graph == "graph" \in sources
        combined == IF has_semantic /\ has_graph
                    THEN (cfg.semantic_weight * semantic_score
                          + cfg.graph_weight * graph_score) \div WeightOne
                    ELSE IF has_semantic THEN semantic_score
                    ELSE IF has_graph THEN graph_score
                    ELSE 0
    IN  Min(combined + cfg.diversity_boost, One)

CalculateCombinedScoreUncapped(cfg, semantic_score, graph_score, sources) ==
    LET has_semantic == "semantic" \in sources
        has_graph == "graph" \in sources
        combined == IF has_semantic /\ has_graph
                    THEN (cfg.semantic_weight * semantic_score
                          + cfg.graph_weight * graph_score) \div WeightOne
                    ELSE IF has_semantic THEN semantic_score
                    ELSE IF has_graph THEN graph_score
                    ELSE 0
        boost == IF has_semantic /\ has_graph THEN cfg.diversity_boost ELSE 0
    IN  combined + boost

CalculateCombinedScore(cfg, semantic_score, graph_score, sources) ==
    LET has_semantic == "semantic" \in sources
        has_graph == "graph" \in sources
        combined == IF has_semantic /\ has_graph
                    THEN (cfg.semantic_weight * semantic_score
                          + cfg.graph_weight * graph_score) \div WeightOne
                    ELSE IF has_semantic THEN semantic_score
                    ELSE IF has_graph THEN graph_score
                    ELSE 0
        boost == IF has_semantic /\ has_graph THEN cfg.diversity_boost ELSE 0
    IN  Min(combined + boost, One)

(***************************************************************************)
(* Result dicts.                                                           *)
(***************************************************************************)
Absent == "<absent>"
NoneV == "<None>"
AttrKeys == {"product_id", "id", "name", "category"}

\* dict.get(key, default)
Get(d, key, default) == IF d[key] = Absent THEN default ELSE d[key]

\* Python truth value of an id: None and "" are false.
Truthy(v) == v \notin {Absent, NoneV, ""}

Dict(product_id, id, name, category) ==
    [product_id |-> product_id, id |-> id, name |-> name, category |-> category]

\* dict.update(other): every key of other is written, whatever its value.
DictUpdate(d, other) ==
    [k \in AttrKeys |-> IF other[k] # Absent THEN other[k] ELSE d[k]]

\* What the semantic adapter can hand over (SemanticEngineClient.search returns
\* data["results"] as it came): the engine's own shape keyed by product_id, the
\* same product again with another score, a record keyed by "id", and a record
\* with an empty id.
VectorRecords ==
    { [attrs |-> Dict("p1", Absent, "X", NoneV),   score |-> One],
      [attrs |-> Dict("p1", Absent, "",  Absent),  score |-> 300000],
      [attrs |-> Dict(Absent, "p3", "Z", Absent),  score |-> 800010],
      [attrs |-> Dict("",  Absent, "N", Absent),   score |-> 800000] }

\* What the graph adapter hands over (GraphServiceClient.search_products builds
\* every dict with the keys id, name and category; protobuf gives "" for a field
\* the node does not have): a product the vector list can hold too, with and
\* without a name, a product only the graph holds, and a node without id.
GraphRecords ==
    { [attrs |-> Dict(Absent, "p1", "",  "Shoes")],
      [attrs |-> Dict(Absent, "p1", "W", "")],
      [attrs |-> Dict(Absent, "p4", "V", "Shoes")],
      [attrs |-> Dict(Absent, "",   "U", "")] }

SeqsUpTo(S, n) == UNION {[1..k -> S] : k \in 0..n}

Limits == (0 - 1)..MaxLimit

(***************************************************************************)
(* LLMService.score_relevance.  The reply of the scoring backend is a      *)
(* sequence of characters; the call can also fail inside _generate (HTTP   *)
(* error, timeout, bad JSON), or raise while the product summary is built  *)
(* (lines 118-126 are outside the try).                                    *)
(***************************************************************************)
Digits == {"0", "1", "2", "3", "4", "5", "6", "7", "8", "9"}

DigitVal(c) ==
    CASE c = "0" -> 0 [] c = "1" -> 1 [] c = "2" -> 2 [] c = "3" -> 3 [] c = "4" -> 4
      [] c = "5" -> 5 [] c = "6" -> 6 [] c = "7" -> 7 [] c = "8" -> 8 [] c = "9" -> 9

RECURSIVE Pow10(_)
Pow10(n) == IF n = 0 THEN 1 ELSE 10 * Pow10(n - 1)

\* The position after the longest run of digits that starts at position p.
RECURSIVE DigitsEnd(_, _)
DigitsEnd(t, p) ==
    IF p <= Len(t) /\ t[p] \in Digits THEN DigitsEnd(t, p + 1) ELSE p

\* The value of the digits t[p..q-1] as an integer.
RECURSIVE IntValue(_, _, _)
IntValue(t, p, q) ==
    IF p >= q THEN 0 ELSE IntValue(t, p, q - 1) * 10 + DigitVal(t[q - 1])

\* The value of the digits t[p..q-1] as a fraction, in millionths.
RECURSIVE FracValue(_, _, _, _)
FracValue(t, p, q, place) ==
    IF p >= q \/ place > 6 THEN 0
    ELSE DigitVal(t[p]) * Pow10(6 - place) + FracValue(t, p + 1, q, place + 1)

\* re.search(r'(\d+\.?\d*)', text): the first digit starts the match.
FirstDigit(t) ==
    IF \E p \in 1..Len(t) : t[p] \in Digits
    THEN CHOOSE p \in 1..Len(t) : t[p] \in Digits /\ \A q \in 1..(p - 1) : t[q] \notin Digits
    ELSE 0

\* float(score_match.group(1)), in millionths.
MatchedNumber(t) ==
    LET p == FirstDigit(t)
        e == DigitsEnd(t, p)
        hasDot == e <= Len(t) /\ t[e] = "."
        fe == IF hasDot THEN DigitsEnd(t, e + 1) ELSE e
    IN  IntValue(t, p, e) * One + (IF hasDot THEN FracValue(t, e + 1, fe, 1) ELSE 0)

\* The outcomes of one scoring call: "summary_error" is an exception of lines
\* 118-126, "backend_error" any exception inside _generate (connection error,
\* error status, the 60 s timeout, a body that is no JSON), "text" a reply.
\* NoReply stands for "no call has answered yet".
NoReply == [kind |-> "none", text |-> <<>>]

\* The result of score_relevance: a float, or an exception that leaves the call.
ScoreRelevanceNoClamp(outcome) ==
    IF outcome.kind = "summary_error" THEN [raised |-> TRUE, value |-> 0]
    ELSE IF outcome.kind = "backend_error" THEN [raised |-> FALSE, value |-> DefaultScore]
    ELSE IF FirstDigit(outcome.text) # 0
         THEN [raised |-> FALSE, value |-> MatchedNumber(outcome.text)]
         ELSE [raised |-> FALSE, value |-> DefaultScore]

ScoreRelevance(outcome) ==
    IF outcome.kind = "summary_error" THEN [raised |-> TRUE, value |-> 0]
    ELSE IF outcome.kind = "backend_error" THEN [raised |-> FALSE, value |-> DefaultScore]
    ELSE IF FirstDigit(outcome.text) # 0
         THEN [raised |-> FALSE,
               value |-> Max(0, Min(One, MatchedNumber(outcome.text)))]
         ELSE [raised |-> FALSE, value |-> DefaultScore]

\* The replies the scoring backend gives in the model of combine_results.
ScoreTexts ==
    { <<"0", ".", "8">>,
      <<"0", ".", "4", "0", "0", "0", "4">>,
      <<"7">>,
      <<"n", "/", "a">> }

ScoreOutcomes ==
    {[kind |-> "summary_error", text |-> <<>>], [kind |-> "backend_error", text |-> <<>>]}
    \cup {[kind |-> "text", text |-> t] : t \in ScoreTexts}

(***************************************************************************)
(* LLMService._generate, generate_cypher and generate_search_terms.  A     *)
(* text is a sequence of tokens: the code fence, the language tag, a line  *)
(* break, a blank, and words of the query.                                 *)
(***************************************************************************)
Fence == "<fence>"
Tag == "cypher"
NL == "<newline>"
SP == " "
Whitespace == {NL, SP}

\* str.strip()
RECURSIVE StripLeft(_)
StripLeft(t) == IF t # <<>> /\ Head(t) \in Whitespace THEN StripLeft(Tail(t)) ELSE t

RECURSIVE StripRight(_)
StripRight(t) ==
    IF t # <<>> /\ t[Len(t)] \in Whitespace THEN StripRight(SubSeq(t, 1, Len(t) - 1)) ELSE t

Strip(t) == StripRight(StripLeft(t))

\* str.split("\n"): the lines of a text, at least one.
RECURSIVE SplitLines(_)
SplitLines(t) ==
    IF \E p \in 1..Len(t) : t[p] = NL
    THEN LET p == CHOOSE q \in 1..Len(t) : t[q] = NL /\ \A r \in 1..(q - 1) : t[r] # NL
         IN  <<SubSeq(t, 1, p - 1)>> \o SplitLines(SubSeq(t, p + 1, Len(t)))
    ELSE <<t>>

\* "\n".join(lines)
RECURSIVE JoinLines(_)
JoinLines(lines) ==
    IF lines = <<>> THEN <<>>
    ELSE IF Len(lines) = 1 THEN lines[1]
    ELSE lines[1] \o <<NL>> \o JoinLines(Tail(lines))

\* str.replace(fence + "cypher", "")
RECURSIVE RemoveFenceTag(_)
RemoveFenceTag(t) ==
    IF t = <<>> THEN <<>>
    ELSE IF Len(t) >= 2 /\ t[1] = Fence /\ t[2] = Tag
         THEN RemoveFenceTag(SubSeq(t, 3, Len(t)))
         ELSE <<Head(t)>> \o RemoveFenceTag(Tail(t))

\* str.replace(fence, "")
RECURSIVE RemoveFence(_)
RemoveFence(t) ==
    IF t = <<>> THEN <<>>
    ELSE IF Head(t) = Fence THEN RemoveFence(Tail(t))
    ELSE <<Head(t)>> \o RemoveFence(Tail(t))

\* Lines 75-80 of llm_service.py.
CleanCypher(cypher) ==
    IF cypher # <<>> /\ Head(cypher) = Fence
    THEN LET lines == SplitLines(cypher)
         IN  IF Len(lines) > 2
             THEN JoinLines(SubSeq(lines, 2, Len(lines) - 1))
             ELSE Strip(RemoveFence(RemoveFenceTag(cypher)))
    ELSE cypher

\* The fallback query of line 88, around the text of the query.
FallbackCypher(user_query) ==
    <<"CALL db.index.fulltext.queryNodes('productSearch', '">> \o user_query
    \o <<"') YIELD node RETURN node LIMIT 10">>

\* A generation call ends "error" (_generate raised) or "text" (the reply,
\* which _generate strips).
GenerateCypher(user_query, outcome) ==
    IF outcome.kind = "error" THEN FallbackCypher(user_query)
    ELSE CleanCypher(Strip(outcome.text))

GenerateSearchTermsAlwaysFallback(user_query, outcome) == user_query

GenerateSearchTerms(user_query, outcome) ==
    IF outcome.kind = "error" THEN user_query ELSE Strip(outcome.text)

\* The replies of the generation backend in the model of a search request.
CypherReplies ==
    { <<"MATCH">>,
      <<Fence, Tag, NL, "MATCH", NL, Fence>>,
      <<SP, NL>> }

TermsReplies == { <<"nike", SP, "shoes", NL>>, <<>> }

GenerateOutcomes(replies) ==
    {[kind |-> "error", text |-> <<>>]} \cup {[kind |-> "text", text |-> t] : t \in replies}

(***************************************************************************)
(* The state of the search request while none is modelled.                 *)
(***************************************************************************)
\* Each call keeps what the backend answered (backend) beside what the call
\* returned (text).
NoGeneration == [kind |-> "none", text |-> <<>>]

NoTranslation == [cypher |-> [done |-> FALSE, backend |-> NoGeneration, text |-> <<>>],
                  terms |-> [done |-> FALSE, backend |-> NoGeneration, text |-> <<>>]]

NoResponse == [status |-> 0, cypher_query |-> <<>>, search_terms |-> <<>>,
               semantic_results_count |-> 0, graph_results_count |-> 0,
               recommendations |-> <<>>]

\* The state of combine_results before it is called.
NoCombine ==
    /\ semantic_results = <<>>
    /\ graph_results = <<>>
    /\ limit = 0
    /\ input_semantic = <<>>
    /\ input_graph = <<>>
    /\ product_scores = <<>>
    /\ scored_products = <<>>
    /\ final_results = <<>>
    /\ i = 1
    /\ reply = NoReply

NoRequest ==
    /\ request = [query |-> <<>>, limit |-> 0]
    /\ llm_provider = "none"
    /\ clients = [semantic |-> "none", graph |-> "none", llm |-> "none"]
    /\ translation = NoTranslation
    /\ adapters = [semantic |-> "pending", graph |-> "pending"]
    /\ response = NoResponse

\* The create handlers, the semantic engine and the scorer while none of them
\* is modelled.
NoCreate == [pc |-> "idle", endpoint |-> "none", products |-> <<>>, k |-> 1,
             semantic_store |-> {}, graph_store |-> {},
             semantic_success |-> FALSE, graph_ids |-> <<>>,
             clients |-> "none", status |-> 0, success |-> FALSE]

NoEngine == [points |-> {}, before |-> {}, op |-> "none", product_id |-> "",
             qdrant |-> "none", status |-> 0]

NoScoring == [pc |-> "idle", backend |-> NoReply, result |-> [raised |-> FALSE, value |-> 0]]

NoService ==
    /\ create = NoCreate
    /\ engine = NoEngine
    /\ scoring = NoScoring

\* The threads that ask get_vector_store for the store at the same time.
MaxThreads == 3
Threads == 1..MaxThreads

\* The single calls modelled on their own, while none of them runs.
NoCypherCall == [pc |-> "idle", user_query |-> <<>>, enclosed |-> <<>>,
                 opening |-> <<>>, closing |-> <<>>,
                 backend |-> NoGeneration, result |-> <<>>]

\* points and batch sizes are counts; attempts[b] is the sequence of outcomes
\* of the attempts made on batch b so far; errors holds the batch numbers its
\* messages name; result.keys are the keys of the returned dict.
NoUpsert == [pc |-> "idle", points |-> 0, batch_size_arg |-> 0, self_batch_size |-> 0,
             batch_size |-> 0, start |-> 0, attempt |-> 0,
             attempts |-> <<>>, total_inserted |-> 0, errors |-> <<>>,
             result |-> [keys |-> {}, inserted |-> 0, total |-> 0, errors |-> <<>>]]

\* VectorStore instances are numbered from 1 in the order of their
\* construction; 0 stands for None.
NoSingleton == [vector_store |-> 0, constructed |-> 0,
                threads |-> [t \in Threads |-> [pc |-> "idle", instance |-> 0, got |-> 0]]]

NoUnit ==
    /\ generation = NoCypherCall
    /\ upsert = NoUpsert
    /\ singleton = NoSingleton

(***************************************************************************)
(* RecommendationService.combine_results.                                  *)
(*                                                                         *)
(* entry["data"] is a reference to one of the dicts of the argument lists: *)
(* Ref("semantic", k) is semantic_results[k], Ref("graph", k) is           *)
(* graph_results[k]; an update through it changes the list element.        *)
(***************************************************************************)
NoData == [src |-> "none", idx |-> 0]
Ref(src, k) == [src |-> src, idx |-> k]

\* The dict a reference points to, in the given lists.
Deref(ref, sem, gr) ==
    IF ref.src = "semantic" THEN sem[ref.idx].attrs ELSE gr[ref.idx].attrs

\* The position of product_id in the dict product_scores, 0 when it is no key.
IndexOf(ps, product_id) ==
    IF \E k \in 1..Len(ps) : ps[k].product_id = product_id
    THEN CHOOSE k \in 1..Len(ps) : ps[k].product_id = product_id
    ELSE 0

NewEntry(product_id) ==
    [product_id |-> product_id, semantic_score |-> 0, graph_score |-> 0,
     data |-> NoData, sources |-> {}]

\* get_product_entry: the dict with the entry created when the key is new.
GetProductEntryAlwaysNew(ps, product_id) == Append(ps, NewEntry(product_id))

GetProductEntry(ps, product_id) ==
    IF IndexOf(ps, product_id) = 0 THEN Append(ps, NewEntry(product_id)) ELSE ps

\* result.get("product_id", result.get("id"))
SemanticId(result) == Get(result.attrs, "product_id", Get(result.attrs, "id", NoneV))

\* result.get("id", result.get("product_id"))
GraphId(result) == Get(result.attrs, "id", Get(result.attrs, "product_id", NoneV))

\* Where the call goes after the loop over semantic_results has handled k-1 items.
AfterSemantic(k, sem, gr) ==
    IF k <= Len(sem) THEN "semantic_loop"
    ELSE IF Len(gr) > 0 THEN "graph_loop"
    ELSE "score_loop"

AfterGraph(k, gr) == IF k <= Len(gr) THEN "graph_loop" ELSE "score_loop"

\* One iteration of "for result in semantic_results" (lines 44-51).
ProcessSemanticResult ==
    /\ pc = "semantic_loop"
    /\ i <= Len(semantic_results)
    /\ LET result == semantic_results[i]
           product_id == SemanticId(result)
           ps == GetProductEntry(product_scores, product_id)
           k == IndexOf(ps, product_id)
       IN  product_scores' =
             IF Truthy(product_id)
             THEN [ps EXCEPT ![k] =
                     [@ EXCEPT !.semantic_score = result.score,
                               !.sources = @ \cup {"semantic"},
                               !.data = IF @ = NoData THEN Ref("semantic", i) ELSE @]]
             ELSE product_scores
    /\ i' = IF i + 1 <= Len(semantic_results) THEN i + 1 ELSE 1
    /\ pc' = AfterSemantic(i + 1, semantic_results, graph_results)
    /\ UNCHANGED serviceVars
    /\ UNCHANGED unitVars
    /\ UNCHANGED <<config, fusion, semantic_results, graph_results, limit,
                   input_semantic, input_graph, scored_products, final_results, reply>>
    /\ UNCHANGED requestVars

\* One iteration of "for result in graph_results" (lines 54-62).
ProcessGraphResult ==
    /\ pc = "graph_loop"
    /\ i <= Len(graph_results)
    /\ LET result == graph_results[i]
           product_id == GraphId(result)
           ps == GetProductEntry(product_scores, product_id)
           k == IndexOf(ps, product_id)
           data == ps[k].data
       IN  IF Truthy(product_id)
           THEN /\ product_scores' =
                     [ps EXCEPT ![k] =
                        [@ EXCEPT !.sources = @ \cup {"graph"},
                                  !.data = IF @ = NoData THEN Ref("graph", i) ELSE @]]
                /\ semantic_results' =
                     IF data.src = "semantic"
                     THEN [semantic_results EXCEPT ![data.idx].attrs =
                             DictUpdate(@, result.attrs)]
                     ELSE semantic_results
                /\ graph_results' =
                     IF data.src = "graph"
                     THEN [graph_results EXCEPT ![data.idx].attrs =
                             DictUpdate(@, result.attrs)]
                     ELSE graph_results
           ELSE UNCHANGED <<product_scores, semantic_results, graph_results>>
    /\ i' = IF i + 1 <= Len(graph_results) THEN i + 1 ELSE 1
    /\ pc' = AfterGraph(i + 1, graph_results)
    /\ UNCHANGED serviceVars
    /\ UNCHANGED unitVars
    /\ UNCHANGED <<config, fusion, limit, input_semantic, input_graph,
                   scored_products, final_results, reply>>
    /\ UNCHANGED requestVars

\* "for product_id in product_ids" (line 68): is there a k-th candidate to score.
MoreToScoreOrNone(k, ps) == k <= Len(ps) \/ ps = <<>>

MoreToScore(k, ps) == k <= Len(ps)

\* "for product_id in product_ids": the scoring call of line 73 is issued ...
IssueScore ==
    /\ pc = "score_loop"
    /\ MoreToScore(i, product_scores)
    /\ pc' = "score_await"
    /\ reply' = NoReply
    /\ UNCHANGED serviceVars
    /\ UNCHANGED unitVars
    /\ UNCHANGED <<config, fusion, semantic_results, graph_results, limit, input_semantic,
                   input_graph, product_scores, scored_products, final_results, i>>
    /\ UNCHANGED requestVars

\* try: await score_relevance(...) except Exception: 0.5 (lines 71-76).  An
\* exception that were not caught would leave combine_results.
TryScoreNoCatch(answer) == answer

TryScore(answer) ==
    IF answer.raised THEN [raised |-> FALSE, value |-> DefaultScore] ELSE answer

\* ... and answers (lines 73-94): the score is stored, the combined score
\* computed and the product appended.
CompleteScore ==
    /\ pc = "score_await"
    /\ \E outcome \in ScoreOutcomes :
         LET scores == product_scores[i]
             scored == TryScore(ScoreRelevance(outcome))
             graph_score_value == scored.value
             combined_score == CalculateCombinedScore(config, scores.semantic_score,
                                                      graph_score_value, scores.sources)
         IN  /\ reply' = outcome
             /\ IF scored.raised
                THEN /\ pc' = "raised"
                     /\ UNCHANGED <<product_scores, scored_products, i>>
                ELSE /\ product_scores' =
                          [product_scores EXCEPT ![i].graph_score = graph_score_value]
                     /\ scored_products' = Append(scored_products,
                          [product_id |-> scores.product_id,
                           semantic_score |-> scores.semantic_score,
                           graph_score |-> graph_score_value,
                           combined_score |-> combined_score,
                           data |-> scores.data,
                           sources |-> scores.sources])
                     /\ i' = i + 1
                     /\ pc' = "score_loop"
    /\ UNCHANGED serviceVars
    /\ UNCHANGED unitVars
    /\ UNCHANGED <<config, fusion, semantic_results, graph_results, limit,
                   input_semantic, input_graph, final_results>>
    /\ UNCHANGED requestVars

\* list.sort(key=combined_score, reverse=True): a stable sort, so items with
\* equal keys keep their order.  Insert places x after every item whose key is
\* greater than or equal to its own.
RECURSIVE InsertUnstable(_, _)
InsertUnstable(sorted, x) ==
    IF sorted = <<>> THEN <<x>>
    ELSE IF Head(sorted).combined_score > x.combined_score
         THEN <<Head(sorted)>> \o InsertUnstable(Tail(sorted), x)
         ELSE <<x>> \o sorted

RECURSIVE InsertAscending(_, _)
InsertAscending(sorted, x) ==
    IF sorted = <<>> THEN <<x>>
    ELSE IF Head(sorted).combined_score <= x.combined_score
         THEN <<Head(sorted)>> \o InsertAscending(Tail(sorted), x)
         ELSE <<x>> \o sorted

RECURSIVE Insert(_, _)
Insert(sorted, x) ==
    IF sorted = <<>> THEN <<x>>
    ELSE IF Head(sorted).combined_score >= x.combined_score
         THEN <<Head(sorted)>> \o Insert(Tail(sorted), x)
         ELSE <<x>> \o sorted

RECURSIVE SortByCombinedDesc(_)
SortByCombinedDesc(items) ==
    IF items = <<>> THEN <<>>
    ELSE Insert(SortByCombinedDesc(SubSeq(items, 1, Len(items) - 1)), items[Len(items)])

\* items[:n] of Python: a negative n counts from the end.
SliceOneMore(items, n) ==
    IF n >= 0 THEN SubSeq(items, 1, Min(n + 1, Len(items)))
    ELSE SubSeq(items, 1, Max(Len(items) + n, 0))

Slice(items, n) ==
    IF n >= 0 THEN SubSeq(items, 1, Min(n, Len(items)))
    ELSE SubSeq(items, 1, Max(Len(items) + n, 0))

\* The dict of lines 102-114.
BuildResult(item, sem, gr) ==
    LET data == Deref(item.data, sem, gr)
    IN  [product_id |-> item.product_id,
         name |-> Get(data, "name", ""),
         semantic_score |-> Round4(item.semantic_score),
         graph_score |-> Round4(item.graph_score),
         combined_score |-> Round4(item.combined_score),
         category |-> Get(data, "category", NoneV),
         sources |-> item.sources]

\* The loop is over: sort (line 97), build the capped list (lines 100-115), return.
RankAndBuild ==
    /\ pc = "score_loop"
    /\ ~MoreToScore(i, product_scores)
    /\ scored_products' = SortByCombinedDesc(scored_products)
    /\ final_results' =
         LET top == Slice(scored_products', limit)
         IN  [k \in 1..Len(top) |-> BuildResult(top[k], semantic_results, graph_results)]
    /\ pc' = "combined"
    /\ reply' = NoReply
    /\ UNCHANGED serviceVars
    /\ UNCHANGED unitVars
    /\ UNCHANGED <<config, fusion, semantic_results, graph_results, limit,
                   input_semantic, input_graph, product_scores, i>>
    /\ UNCHANGED requestVars

(***************************************************************************)
(* Spec: one call of combine_results on every pair of adapter lists of at  *)
(* most MaxResults records together and every limit in Limits, with the    *)
(* service configured as get_recommendation_service configures it.         *)
(***************************************************************************)
Init ==
    /\ config = DefaultConfig
    /\ fusion = NoFusion
    /\ semantic_results \in SeqsUpTo(VectorRecords, MaxResults)
    /\ graph_results \in SeqsUpTo(GraphRecords, MaxResults)
    /\ Len(semantic_results) + Len(graph_results) <= MaxResults
    /\ limit \in Limits
    /\ input_semantic = semantic_results
    /\ input_graph = graph_results
    /\ product_scores = <<>>
    /\ scored_products = <<>>
    /\ final_results = <<>>
    /\ i = 1
    /\ reply = NoReply
    /\ pc = AfterSemantic(1, semantic_results, graph_results)
    /\ NoRequest
    /\ NoService
    /\ NoUnit

Next ==
    \/ ProcessSemanticResult
    \/ ProcessGraphResult
    \/ IssueScore
    \/ CompleteScore
    \/ RankAndBuild

Spec == Init /\ [][Next]_vars

(***************************************************************************)
(* Properties of combine_results, stated on the lists as they were passed. *)
(***************************************************************************)
Aggregated == pc \in {"score_loop", "score_await", "combined"}

\* The ids of the records of a list that carry one (None and "" are no id).
SemanticIdsIn(list) == {SemanticId(list[k]) : k \in 1..Len(list)} \ {Absent, NoneV, ""}
GraphIdsIn(list) == {GraphId(list[k]) : k \in 1..Len(list)} \ {Absent, NoneV, ""}

RECURSIVE FirstSeen(_, _)
FirstSeen(ids, seen) ==
    IF ids = <<>> THEN <<>>
    ELSE IF Head(ids) \in seen \/ Head(ids) \in {Absent, NoneV, ""}
         THEN FirstSeen(Tail(ids), seen)
         ELSE <<Head(ids)>> \o FirstSeen(Tail(ids), seen \cup {Head(ids)})

\* The ids in their order of first discovery: the vector list first, then the
\* graph list.
DiscoveryOrder ==
    FirstSeen([k \in 1..Len(input_semantic) |-> SemanticId(input_semantic[k])]
              \o [k \in 1..Len(input_graph) |-> GraphId(input_graph[k])], {})

PositionIn(order, id) == CHOOSE k \in 1..Len(order) : order[k] = id

\* C3: the returned recommendations are in descending order of combined_score:
\* of two adjacent entries the earlier one's score is at least the later one's.
C3_OutputDescending ==
    pc = "combined" =>
        \A k \in 1..(Len(final_results) - 1) :
            final_results[k].combined_score >= final_results[k + 1].combined_score

C3_Witness ==
    /\ pc = "combined"
    /\ Len(final_results) >= 2
    /\ final_results[1].combined_score > final_results[2].combined_score
    /\ final_results[1].product_id = DiscoveryOrder[2]
    /\ final_results[2].product_id = DiscoveryOrder[1]

\* C4: two candidates with equal combined_score (the sort key of line 97) stand
\* in the ranked list in their order of first discovery: vector-list ids in
\* vector-list order, then the ids first seen in the graph list in its order.
C4_TiesInDiscoveryOrder ==
    pc = "combined" =>
        \A a, b \in 1..Len(scored_products) :
            (a < b /\ scored_products[a].combined_score = scored_products[b].combined_score)
            => PositionIn(DiscoveryOrder, scored_products[a].product_id)
               < PositionIn(DiscoveryOrder, scored_products[b].product_id)

C4_Witness ==
    /\ pc = "combined"
    /\ Len(scored_products) = 3
    /\ Len(final_results) = 2
    /\ scored_products[1].combined_score = scored_products[2].combined_score
    /\ scored_products[2].combined_score > scored_products[3].combined_score
    /\ final_results[1].product_id = DiscoveryOrder[2]
    /\ final_results[2].product_id = DiscoveryOrder[3]

\* C5: for a limit >= 0 the result is the first min(limit, number of candidates)
\* entries of the ranked list: never longer than limit, empty for limit = 0.
C5_TruncatedToLimit ==
    (pc = "combined" /\ limit >= 0) =>
        /\ Len(final_results) = Min(limit, Len(product_scores))
        /\ Len(final_results) <= limit
        /\ limit = 0 => final_results = <<>>
        /\ \A k \in 1..Len(final_results) :
               final_results[k].product_id = scored_products[k].product_id

C5_Witness ==
    /\ pc = "combined"
    /\ limit = 1
    /\ Len(product_scores) = 3
    /\ Len(final_results) = 1
    /\ final_results[1].product_id = scored_products[1].product_id

\* C6: after aggregation there is exactly one candidate for every id the two
\* lists hold (ids repeated inside a list or present in both included), and no
\* id occurs twice in the returned recommendations.
C6_OneCandidatePerId ==
    /\ \A a, b \in 1..Len(product_scores) :
           a # b => product_scores[a].product_id # product_scores[b].product_id
    /\ Aggregated =>
           \A id \in SemanticIdsIn(input_semantic) \cup GraphIdsIn(input_graph) :
               Cardinality({k \in 1..Len(product_scores) :
                               product_scores[k].product_id = id}) = 1
    /\ pc = "combined" =>
           \A a, b \in 1..Len(final_results) :
               a # b => final_results[a].product_id # final_results[b].product_id

C6_Witness ==
    /\ pc = "combined"
    /\ Len(input_semantic) = 2
    /\ SemanticId(input_semantic[1]) = "p1"
    /\ SemanticId(input_semantic[2]) = "p1"
    /\ Len(input_graph) = 1
    /\ GraphId(input_graph[1]) = "p1"
    /\ Len(product_scores) = 1
    /\ Len(final_results) = 1
    /\ final_results[1].product_id = "p1"

\* C7: when a graph result has the id of an existing vector candidate, every
\* attribute the vector snapshot held with a non-empty value keeps that value
\* after the merge, and an empty or absent one takes the graph result's value.
C7_MergeKeepsPopulated ==
    \A k \in 1..Len(product_scores) :
        LET entry == product_scores[k]
        IN  (entry.data.src = "semantic" /\ "graph" \in entry.sources) =>
                \A key \in AttrKeys :
                    LET before == input_semantic[entry.data.idx].attrs[key]
                        after == semantic_results[entry.data.idx].attrs[key]
                    IN  Truthy(before) => after = before

\* C8 as stated: the number of candidates is at most the sum of the two list
\* lengths, and equals it if and only if no id occurs in both lists.
C8_CountEqualIffNoOverlap ==
    Aggregated =>
        /\ Len(product_scores) <= Len(input_semantic) + Len(input_graph)
        /\ (Len(product_scores) = Len(input_semantic) + Len(input_graph))
           <=> (SemanticIdsIn(input_semantic) \cap GraphIdsIn(input_graph) = {})

\* C8 as amended: the number of candidates is at most the sum of the two list
\* lengths, and equals it if and only if every record carries a non-empty id
\* and no id occurs twice, neither in both lists nor inside one list.
C8_CountEqualIffAllIdsDistinct ==
    Aggregated =>
        /\ Len(product_scores) <= Len(input_semantic) + Len(input_graph)
        /\ (Len(product_scores) = Len(input_semantic) + Len(input_graph))
           <=> /\ SemanticIdsIn(input_semantic) \cap GraphIdsIn(input_graph) = {}
               /\ Cardinality(SemanticIdsIn(input_semantic)) = Len(input_semantic)
               /\ Cardinality(GraphIdsIn(input_graph)) = Len(input_graph)

C8_Witness ==
    /\ Aggregated
    /\ Len(input_semantic) = 2
    /\ Len(input_graph) = 1
    /\ SemanticId(input_semantic[1]) = SemanticId(input_semantic[2])
    /\ SemanticIdsIn(input_semantic) \cap GraphIdsIn(input_graph) = {}
    /\ Len(product_scores) = 2

\* C9: a scoring call that raises, times out or answers text without a number
\* gives its candidate the score 0.5 and keeps it in the ranking; as many
\* products are scored as were aggregated and combine_results does not raise.
FailedReply ==
    \/ reply.kind \in {"summary_error", "backend_error"}
    \/ reply.kind = "text" /\ \A p \in 1..Len(reply.text) : reply.text[p] \notin Digits

C9_ScoringFailureIsNeutral ==
    /\ pc # "raised"
    /\ FailedReply =>
           /\ Len(scored_products) = i - 1
           /\ scored_products[i - 1].graph_score = DefaultScore
           /\ scored_products[i - 1].product_id = product_scores[i - 1].product_id
    /\ pc = "combined" =>
           /\ Len(scored_products) = Len(product_scores)
           /\ {scored_products[k].product_id : k \in 1..Len(scored_products)}
              = {product_scores[k].product_id : k \in 1..Len(product_scores)}
           /\ \A k \in 1..Len(scored_products) :
                  \E j \in 1..Len(product_scores) :
                      /\ product_scores[j].product_id = scored_products[k].product_id
                      /\ product_scores[j].graph_score = scored_products[k].graph_score

C9_Witness ==
    /\ pc = "score_loop"
    /\ reply.kind = "summary_error"
    /\ Len(product_scores) = 2
    /\ Len(scored_products) = 2
    /\ scored_products[1].graph_score = 800000
    /\ scored_products[2].graph_score = DefaultScore

\* C19: after aggregation no candidate has fewer populated attribute fields
\* than the richer of the vector record and the graph records that went into
\* it, and no field that was populated in its vector snapshot is empty after
\* the merge.
PopulatedKeys(attrs) == {key \in AttrKeys : Truthy(attrs[key])}

C19_MergeNeverEmptiesField ==
    Aggregated =>
        \A k \in 1..Len(product_scores) :
            LET entry == product_scores[k]
                merged == Deref(entry.data, semantic_results, graph_results)
                snapshot == Deref(entry.data, input_semantic, input_graph)
            IN  (entry.data.src = "semantic" /\ "graph" \in entry.sources) =>
                /\ PopulatedKeys(snapshot) \subseteq PopulatedKeys(merged)
                /\ Cardinality(PopulatedKeys(merged)) >= Cardinality(PopulatedKeys(snapshot))
                /\ \A g \in 1..Len(input_graph) :
                       GraphId(input_graph[g]) = entry.product_id =>
                           Cardinality(PopulatedKeys(merged))
                               >= Cardinality(PopulatedKeys(input_graph[g].attrs))

\* C28: combine_results leaves the two lists it was given unchanged: when it
\* has returned, the semantic list and the graph list hold the records, field
\* by field, that were passed in, also for ids present in both lists.
C28_InputsUnchanged ==
    pc = "combined" =>
        /\ semantic_results = input_semantic
        /\ graph_results = input_graph

\* C25: scoring calls are issued with bounded concurrency C.  Never more than
\* C calls are in flight, and for C > 1 the calls are not serial: while one
\* call is in flight and another candidate waits to be scored, a further call
\* can be issued.  Stated for C = 2 and C = 3.
ScoringCallsInFlight == IF pc = "score_await" THEN 1 ELSE 0

C25_BoundedConcurrentScoring ==
    \A C \in {2, 3} :
        /\ ScoringCallsInFlight <= C
        /\ (/\ ScoringCallsInFlight >= 1
            /\ ScoringCallsInFlight < C
            /\ i < Len(product_scores)) => ENABLED IssueScore

\* C16: every recommendation combine_results returns has its combined_score
\* and its graph_score in [0,1], for adapter lists whose vector scores lie in
\* [0,1] and every outcome of the scorer.
VectorScoresInUnit ==
    \A k \in 1..Len(input_semantic) :
        input_semantic[k].score >= 0 /\ input_semantic[k].score <= One

C16_ScoresInUnitInterval ==
    (pc = "combined" /\ VectorScoresInUnit) =>
        \A k \in 1..Len(final_results) :
            /\ final_results[k].combined_score >= 0
            /\ final_results[k].combined_score <= One
            /\ final_results[k].graph_score >= 0
            /\ final_results[k].graph_score <= One

C16_Witness ==
    /\ pc = "combined"
    /\ VectorScoresInUnit
    /\ \E k \in 1..Len(final_results) :
           /\ final_results[k].sources = {"semantic", "graph"}
           /\ final_results[k].semantic_score = One
           /\ final_results[k].graph_score = One
           /\ final_results[k].combined_score = One

(***************************************************************************)
(* The handler of POST /api/v1/search (orchestrator/main.py).              *)
(*                                                                         *)
(* llm_provider says where the llm_service parameter comes from.  With     *)
(* "get_llm_service" FastAPI resolves Depends(get_llm_service), which      *)
(* calls LLMService(api_key=...) although LLMService.__init__ takes only   *)
(* base_url and model: a TypeError, and the request ends with status 500   *)
(* before the handler's body runs.  With "caller" the one who calls        *)
(* search_products supplies an LLMService (a direct call, or a dependency  *)
(* override), and the body runs.                                           *)
(***************************************************************************)
Queries == { <<>>, <<"red", SP, "shoes">> }

LlmProviders == {"get_llm_service", "caller"}

\* get_llm_service (main.py 49-50) against LLMService.__init__ (llm_service.py 12).
GetLlmService == [raised |-> TRUE]

\* The records the adapters deliver in the model of a search request.
SearchVectorRecords ==
    { [attrs |-> Dict("p1", Absent, "X", NoneV),   score |-> One],
      [attrs |-> Dict(Absent, "p3", "Z", Absent),  score |-> 800010] }

SearchGraphRecords ==
    { [attrs |-> Dict(Absent, "p1", "",  "Shoes")],
      [attrs |-> Dict(Absent, "p4", "V", "Shoes")] }

\* Each adapter delivers at most MaxFetch records.
MaxFetch == 1

AdapterOutcomes(records) ==
    {[kind |-> "error", results |-> <<>>]}
    \cup {[kind |-> "ok", results |-> r] : r \in SeqsUpTo(records, MaxFetch)}

\* SemanticEngineClient.search: any exception of the call gives [].
SemanticSearchRaises(outcome) ==
    [raised |-> outcome.kind = "error",
     results |-> IF outcome.kind = "error" THEN <<>> ELSE outcome.results]

SemanticSearch(outcome) ==
    [raised |-> FALSE,
     results |-> IF outcome.kind = "error" THEN <<>> ELSE outcome.results]

\* GraphServiceClient.search_products: any exception of the call gives [].
GraphSearch(outcome) ==
    [raised |-> FALSE,
     results |-> IF outcome.kind = "error" THEN <<>> ELSE outcome.results]

\* The except branch of lines 148-152: both clients closed, status 500.
ErrorResponse == [NoResponse EXCEPT !.status = 500]

\* FastAPI resolves the handler's dependencies in the order of its parameters.
ResolveDependencies ==
    /\ pc = "request"
    /\ IF llm_provider = "get_llm_service" /\ GetLlmService.raised
       THEN /\ clients' = [clients EXCEPT !.semantic = "open", !.graph = "open"]
            /\ response' = ErrorResponse
            /\ pc' = "done"
       ELSE /\ clients' = [semantic |-> "open", graph |-> "open", llm |-> "open"]
            /\ pc' = "translate"
            /\ UNCHANGED response
    /\ UNCHANGED serviceVars
    /\ UNCHANGED unitVars
    /\ UNCHANGED <<config, fusion, request, llm_provider, translation, adapters>>
    /\ UNCHANGED combineVars

AfterTranslate(t) == IF t.cypher.done /\ t.terms.done THEN "fetch_semantic" ELSE "translate"

\* Step 1 (lines 107-110): the two generation calls run under asyncio.gather
\* and end in either order.
CypherTask ==
    /\ pc = "translate"
    /\ ~translation.cypher.done
    /\ \E outcome \in GenerateOutcomes(CypherReplies) :
         translation' = [translation EXCEPT
                           !.cypher = [done |-> TRUE,
                                       backend |-> outcome,
                                       text |-> GenerateCypher(request.query, outcome)]]
    /\ pc' = AfterTranslate(translation')
    /\ UNCHANGED serviceVars
    /\ UNCHANGED unitVars
    /\ UNCHANGED <<config, fusion, request, llm_provider, clients, adapters, response>>
    /\ UNCHANGED combineVars

TermsTask ==
    /\ pc = "translate"
    /\ ~translation.terms.done
    /\ \E outcome \in GenerateOutcomes(TermsReplies) :
         translation' = [translation EXCEPT
                           !.terms = [done |-> TRUE,
                                      backend |-> outcome,
                                      text |-> GenerateSearchTerms(request.query, outcome)]]
    /\ pc' = AfterTranslate(translation')
    /\ UNCHANGED serviceVars
    /\ UNCHANGED unitVars
    /\ UNCHANGED <<config, fusion, request, llm_provider, clients, adapters, response>>
    /\ UNCHANGED combineVars

\* Step 2 (lines 115-119): the semantic search.
FetchSemantic ==
    /\ pc = "fetch_semantic"
    /\ \E outcome \in AdapterOutcomes(SearchVectorRecords) :
         LET found == SemanticSearch(outcome)
         IN  IF found.raised
             THEN /\ clients' = [clients EXCEPT !.semantic = "closed", !.graph = "closed"]
                  /\ response' = ErrorResponse
                  /\ adapters' = [adapters EXCEPT !.semantic = "failed"]
                  /\ pc' = "done"
                  /\ UNCHANGED semantic_results
             ELSE /\ semantic_results' = found.results
                  /\ adapters' = [adapters EXCEPT
                                    !.semantic = IF outcome.kind = "error"
                                                 THEN "failed" ELSE "ok"]
                  /\ pc' = "fetch_graph"
                  /\ UNCHANGED <<clients, response>>
    /\ UNCHANGED serviceVars
    /\ UNCHANGED unitVars
    /\ UNCHANGED <<config, fusion, request, llm_provider, translation, graph_results,
                   limit, input_semantic, input_graph, product_scores, scored_products,
                   final_results, i, reply>>

\* The outcomes of the gRPC call of graph_client.py line 85.  The call is made
\* without a deadline, so besides answering or raising it can wait for ever
\* for a graph service that never answers ("no_answer"); the HTTP calls of the
\* other clients carry a timeout (30 s and 60 s) that turns silence into an
\* exception.
GraphCallOutcomes ==
    AdapterOutcomes(SearchGraphRecords) \cup {[kind |-> "no_answer", results |-> <<>>]}

\* Step 2 (line 121), and the call of combine_results of lines 127-133.
FetchGraph ==
    /\ pc = "fetch_graph"
    /\ \E outcome \in GraphCallOutcomes :
         IF outcome.kind = "no_answer"
         THEN /\ pc' = "blocked"
              /\ UNCHANGED <<graph_results, adapters, input_graph, input_semantic,
                             limit, i>>
         ELSE LET found == GraphSearch(outcome)
              IN  /\ graph_results' = found.results
                  /\ adapters' = [adapters EXCEPT
                                    !.graph = IF outcome.kind = "error"
                                              THEN "failed" ELSE "ok"]
                  /\ input_graph' = found.results
                  /\ pc' = AfterSemantic(1, semantic_results, found.results)
                  /\ input_semantic' = semantic_results
                  /\ limit' = request.limit
                  /\ i' = 1
    /\ UNCHANGED serviceVars
    /\ UNCHANGED unitVars
    /\ UNCHANGED <<config, fusion, request, llm_provider, clients, translation, response,
                   semantic_results, product_scores, scored_products, final_results, reply>>

\* Lines 136-146: the clients are closed and the response is built.
BuildResponseRejectsEmpty(t, sem, gr, recommendations) ==
    IF recommendations = <<>>
    THEN [status |-> 500, cypher_query |-> <<>>, search_terms |-> <<>>,
          semantic_results_count |-> 0, graph_results_count |-> 0,
          recommendations |-> <<>>]
    ELSE [status |-> 200,
          cypher_query |-> t.cypher.text,
          search_terms |-> t.terms.text,
          semantic_results_count |-> Len(sem),
          graph_results_count |-> Len(gr),
          recommendations |-> recommendations]

BuildResponse(t, sem, gr, recommendations) ==
    [status |-> 200,
     cypher_query |-> t.cypher.text,
     search_terms |-> t.terms.text,
     semantic_results_count |-> Len(sem),
     graph_results_count |-> Len(gr),
     recommendations |-> recommendations]

Respond ==
    /\ pc = "combined"
    /\ clients' = [clients EXCEPT !.semantic = "closed", !.graph = "closed"]
    /\ response' = BuildResponse(translation, semantic_results, graph_results, final_results)
    /\ pc' = "done"
    /\ UNCHANGED serviceVars
    /\ UNCHANGED unitVars
    /\ UNCHANGED <<config, fusion, request, llm_provider, translation, adapters>>
    /\ UNCHANGED combineVars

(***************************************************************************)
(* SpecSearch: one search request, for every query and limit, every        *)
(* outcome of the generation, adapter and scoring calls.                   *)
(***************************************************************************)
InitSearch ==
    /\ pc = "request"
    /\ config = DefaultConfig
    /\ fusion = NoFusion
    /\ NoCombine
    /\ request \in [query : Queries, limit : Limits]
    /\ llm_provider \in LlmProviders
    /\ clients = [semantic |-> "none", graph |-> "none", llm |-> "none"]
    /\ translation = NoTranslation
    /\ adapters = [semantic |-> "pending", graph |-> "pending"]
    /\ response = NoResponse
    /\ NoService
    /\ NoUnit

NextSearch ==
    \/ ResolveDependencies
    \/ CypherTask
    \/ TermsTask
    \/ FetchSemantic
    \/ FetchGraph
    \/ ProcessSemanticResult
    \/ ProcessGraphResult
    \/ IssueScore
    \/ CompleteScore
    \/ RankAndBuild
    \/ Respond

SpecSearch == InitSearch /\ [][NextSearch]_vars

\* The same request under the assumption that a step that can be taken is
\* taken: the event loop runs the handler, and a call that can return returns.
SpecSearchLive == InitSearch /\ [][NextSearch]_vars /\ WF_vars(NextSearch)

\* C10: when both adapters have returned empty lists (no matches, or both
\* backends failing), the request ends with a normal response that has no
\* recommendations and both counts 0; no error is raised to the caller.
BothAdaptersEmpty ==
    /\ adapters.semantic # "pending" /\ adapters.graph # "pending"
    /\ input_semantic = <<>> /\ input_graph = <<>>

C10_TotalOutageDegrades ==
    BothAdaptersEmpty =>
        /\ pc \in {"score_loop", "combined", "done"}
        /\ pc = "done" =>
               /\ response.status = 200
               /\ response.recommendations = <<>>
               /\ response.semantic_results_count = 0
               /\ response.graph_results_count = 0

C10_Witness ==
    /\ pc = "done"
    /\ adapters = [semantic |-> "failed", graph |-> "failed"]
    /\ response.status = 200
    /\ response.recommendations = <<>>
    /\ response.semantic_results_count = 0
    /\ response.graph_results_count = 0

\* C11: when exactly one adapter has failed, the request still ends with a
\* normal response: the failed source has contributed an empty list and a
\* count of zero, and every recommendation comes from the other source alone.
FailedSources == {src \in {"semantic", "graph"} : adapters[src] = "failed"}

C11_OneSourceDownDegrades ==
    Cardinality(FailedSources) = 1 =>
        /\ pc # "raised"
        /\ pc = "done" =>
               /\ response.status = 200
               /\ "semantic" \in FailedSources =>
                      /\ input_semantic = <<>>
                      /\ response.semantic_results_count = 0
                      /\ response.graph_results_count = Len(input_graph)
                      /\ \A k \in 1..Len(response.recommendations) :
                             /\ response.recommendations[k].sources = {"graph"}
                             /\ response.recommendations[k].product_id
                                    \in GraphIdsIn(input_graph)
               /\ "graph" \in FailedSources =>
                      /\ input_graph = <<>>
                      /\ response.graph_results_count = 0
                      /\ response.semantic_results_count = Len(input_semantic)
                      /\ \A k \in 1..Len(response.recommendations) :
                             /\ response.recommendations[k].sources = {"semantic"}
                             /\ response.recommendations[k].product_id
                                    \in SemanticIdsIn(input_semantic)

C11_Witness ==
    /\ pc = "done"
    /\ adapters = [semantic |-> "failed", graph |-> "ok"]
    /\ response.status = 200
    /\ response.semantic_results_count = 0
    /\ response.graph_results_count = 1
    /\ Len(response.recommendations) = 1
    /\ response.recommendations[1].sources = {"graph"}

\* C12: a request with an empty query or a limit <= 0 is rejected to the
\* caller (a 4xx status) before any translation, adapter or scoring call is
\* made.
Malformed == request.query = <<>> \/ request.limit <= 0

C12_MalformedRejected ==
    Malformed =>
        /\ translation = NoTranslation
        /\ adapters = [semantic |-> "pending", graph |-> "pending"]
        /\ reply = NoReply
        /\ pc = "done" => response.status \in {400, 422}

\* C13: a request with a non-empty query and a positive limit never ends in
\* an error response, whatever the generation backend, the adapters and the
\* scorer do.
C13_ValidNeverErrors ==
    (request.query # <<>> /\ request.limit > 0) =>
        /\ pc # "raised"
        /\ pc = "done" => response.status = 200

\* C14: generate_cypher never returns an empty string: when the backend has
\* failed, or its output is empty or empty after the fence cleanup, the result
\* is the fallback query built from the text of the request.
C14_CypherNeverEmpty ==
    translation.cypher.done =>
        LET backend == translation.cypher.backend
        IN  /\ translation.cypher.text # <<>>
            /\ (\/ backend.kind = "error"
                \/ Strip(backend.text) = <<>>
                \/ CleanCypher(Strip(backend.text)) = <<>>)
               => translation.cypher.text = FallbackCypher(request.query)

\* C15: generate_search_terms returns the text of the request unmodified when
\* the backend has failed or has returned empty output, and never returns an
\* empty string for a non-empty query.
C15_TermsFallBackToQuery ==
    translation.terms.done =>
        LET backend == translation.terms.backend
        IN  /\ (backend.kind = "error" \/ Strip(backend.text) = <<>>)
               => translation.terms.text = request.query
            /\ request.query # <<>> => translation.terms.text # <<>>

\* C21 as stated: when the candidate set of a request is empty, the result is
\* an empty list and no backend call other than the translation calls has been
\* attempted: no adapter call and no scoring call.
EmptyCandidateSet ==
    /\ product_scores = <<>>
    /\ \/ pc \in {"score_loop", "score_await", "combined"}
       \/ pc = "done" /\ response.status = 200

NoScoringCall ==
    /\ pc # "score_await"
    /\ scored_products = <<>>
    /\ reply = NoReply

C21_EmptySetOnlyTranslation ==
    EmptyCandidateSet =>
        /\ adapters = [semantic |-> "pending", graph |-> "pending"]
        /\ NoScoringCall
        /\ pc \in {"combined", "done"} => final_results = <<>>
        /\ pc = "done" => response.recommendations = <<>>

\* C21 as amended: when the candidate set of a request is empty, the result is
\* an empty list and no backend call is attempted after the two adapter calls
\* of the Fetch stage: no scoring call is issued.
C21_EmptySetNoScoring ==
    EmptyCandidateSet =>
        /\ adapters.semantic # "pending" /\ adapters.graph # "pending"
        /\ NoScoringCall
        /\ pc \in {"combined", "done"} => final_results = <<>>
        /\ pc = "done" => response.recommendations = <<>>

C21_Witness ==
    /\ pc = "done"
    /\ product_scores = <<>>
    /\ adapters = [semantic |-> "ok", graph |-> "ok"]
    /\ response.status = 200
    /\ response.recommendations = <<>>
    /\ scored_products = <<>>

\* C23: the two translation calls are independent.  Whatever the other call
\* did, a call whose backend answered returns the value generated from that
\* answer and a call whose backend failed returns its own fallback; neither
\* failure ends the request, and both calls have returned when the Fetch
\* stage begins.
C23_TranslationsIndependent ==
    /\ translation.cypher.done =>
           translation.cypher.text =
               IF translation.cypher.backend.kind = "error"
               THEN FallbackCypher(request.query)
               ELSE CleanCypher(Strip(translation.cypher.backend.text))
    /\ translation.terms.done =>
           translation.terms.text =
               IF translation.terms.backend.kind = "error"
               THEN request.query
               ELSE Strip(translation.terms.backend.text)
    /\ (translation.cypher.done \/ translation.terms.done) =>
           /\ pc # "raised"
           /\ response.status # 500
    /\ adapters.semantic # "pending" =>
           translation.cypher.done /\ translation.terms.done

C23_Witness ==
    /\ pc = "fetch_semantic"
    /\ request.query # <<>>
    /\ translation.cypher.backend.kind = "error"
    /\ translation.cypher.text = FallbackCypher(request.query)
    /\ translation.terms.backend.kind = "text"
    /\ translation.terms.text = <<"nike", SP, "shoes">>

\* C24: the stages of a request run in the order Translate, Fetch, Aggregate,
\* Score, Fuse and Rank, Respond, each after the previous one has completed: no
\* adapter call before both translation calls have returned, no aggregation
\* before both adapter calls have returned, and no combined score before every
\* candidate has been scored.
C24_StagesInOrder ==
    /\ (adapters.semantic # "pending" \/ adapters.graph # "pending") =>
           translation.cypher.done /\ translation.terms.done
    /\ (product_scores # <<>> \/ pc \in {"semantic_loop", "graph_loop"}) =>
           adapters.semantic # "pending" /\ adapters.graph # "pending"
    /\ scored_products # <<>> =>
           \A k \in 1..Len(product_scores) :
               \E j \in 1..Len(scored_products) :
                   scored_products[j].product_id = product_scores[k].product_id
    /\ response.status = 200 => pc = "done" /\ Len(scored_products) = Len(product_scores)

\* C26: every search request eventually reaches the Respond stage, also when
\* a backend never answers a call.
C26_EveryRequestResponds == <>(pc = "done")

\* C27: when a request has completed, on whichever exit path, every client
\* handle acquired for it (semantic, graph, generation/scoring) is closed.
C27_AllClientsClosed ==
    pc = "done" =>
        \A c \in {"semantic", "graph", "llm"} : clients[c] \in {"none", "closed"}

(***************************************************************************)
(* SpecFusion: _calculate_combined_score applied to every score pair of a  *)
(* grid of tenths, every source set and every configuration.              *)
(***************************************************************************)
ScoreGrid == {k * 100000 : k \in 0..10}

InitFusion ==
    /\ pc = "fusion"
    /\ config \in Configs
    /\ fusion \in {[pc |-> "call", semantic_score |-> s, graph_score |-> g,
                    sources |-> src, result |-> 0] :
                       s \in ScoreGrid, g \in ScoreGrid, src \in SUBSET Sources}
    /\ NoCombine
    /\ NoRequest
    /\ NoService
    /\ NoUnit

Fuse ==
    /\ pc = "fusion"
    /\ fusion.pc = "call"
    /\ fusion' = [fusion EXCEPT
                    !.pc = "done",
                    !.result = CalculateCombinedScore(config, fusion.semantic_score,
                                                     fusion.graph_score, fusion.sources)]
    /\ UNCHANGED serviceVars
    /\ UNCHANGED unitVars
    /\ UNCHANGED <<pc, config>>
    /\ UNCHANGED combineVars
    /\ UNCHANGED requestVars

NextFusion == Fuse

SpecFusion == InitFusion /\ [][NextFusion]_vars

\* C1: once _calculate_combined_score has returned for a candidate whose sources
\* hold both "semantic" and "graph", its result is min(wS*s + wG*g + boost, 1.0);
\* with the default weights s=0.8, g=0.6 gives 0.75 and s=g=1.0 gives 1.0.
C1_BothSourcesFormula ==
    (pc = "fusion" /\ fusion.pc = "done" /\ fusion.sources = Sources) =>
        LET total == config.semantic_weight * fusion.semantic_score
                     + config.graph_weight * fusion.graph_score
                     + WeightOne * config.diversity_boost
        IN  /\ IF total >= WeightOne * One
               THEN fusion.result = One
               ELSE WeightOne * fusion.result = total
            /\ (config = DefaultConfig /\ fusion.semantic_score = 800000
                /\ fusion.graph_score = 600000) => fusion.result = 750000
            /\ (config = DefaultConfig /\ fusion.semantic_score = One
                /\ fusion.graph_score = One) => fusion.result = One

C1_Witness ==
    /\ pc = "fusion" /\ fusion.pc = "done" /\ fusion.sources = Sources
    /\ config = DefaultConfig
    /\ fusion.semantic_score = 800000 /\ fusion.graph_score = 600000
    /\ fusion.result = 750000

\* C2: for a candidate found by exactly one source the result is that source's
\* score itself: s when only "semantic" is present, g when only "graph" is.
C2_SingleSourceExact ==
    (pc = "fusion" /\ fusion.pc = "done") =>
        /\ fusion.sources = {"semantic"} => fusion.result = fusion.semantic_score
        /\ fusion.sources = {"graph"} => fusion.result = fusion.graph_score

C2_Witness ==
    /\ pc = "fusion" /\ fusion.pc = "done" /\ fusion.sources = {"semantic"}
    /\ fusion.semantic_score = 900000 /\ fusion.graph_score = 400000
    /\ fusion.result = 900000

(***************************************************************************)
(* The create handlers of the orchestrator: POST /api/v1/products          *)
(* (create_product) and POST /api/v1/products/batch                        *)
(* (create_products_batch).  A product is the dict of the request body,    *)
(* of which only the "id" key matters here.  semantic_store and            *)
(* graph_store are the ids this request has written to the semantic engine *)
(* and to the graph service.                                               *)
(***************************************************************************)
\* A batch holds at most MaxBatch products.
MaxBatch == 2

CreateProducts == {[id |-> "p1"], [id |-> "p2"], [id |-> Absent]}

\* The check of lines 162-163 and of lines 194-199: "id" not in product.
MissingIdFirstOnly(products) == products # <<>> /\ products[1].id = Absent

MissingId(products) == \E k \in 1..Len(products) : products[k].id = Absent

CreateRequests ==
    {[NoCreate EXCEPT !.pc = "request", !.endpoint = "single",
                      !.products = <<p>>, !.clients = "open"] : p \in CreateProducts}
    \cup {[NoCreate EXCEPT !.pc = "request", !.endpoint = "batch",
                           !.products = ps, !.clients = "open"] :
              ps \in SeqsUpTo(CreateProducts, MaxBatch)}

\* The outcomes of the write to the semantic engine: add_product and
\* add_products_batch return False on any exception, and the engine answers
\* a batch without products with status 400.
SemanticWriteOutcomes(c) ==
    IF c.endpoint = "batch" /\ c.products = <<>> THEN {"error"} ELSE {"ok", "error"}

\* A request without an id in some product ends 400 through the re-raised
\* HTTPException, which closes no client.
ValidateCreate ==
    /\ pc = "create"
    /\ create.pc = "request"
    /\ create' = IF MissingId(create.products)
                 THEN [create EXCEPT !.pc = "done", !.status = 400]
                 ELSE [create EXCEPT !.pc = "semantic"]
    /\ UNCHANGED unitVars
    /\ UNCHANGED <<pc, config, fusion, engine, scoring>>
    /\ UNCHANGED combineVars
    /\ UNCHANGED requestVars

\* semantic_client.add_product / add_products_batch (lines 165 and 201).
AddToSemantic ==
    /\ pc = "create"
    /\ create.pc = "semantic"
    /\ \E outcome \in SemanticWriteOutcomes(create) :
         create' = [create EXCEPT
                      !.pc = "graph",
                      !.k = 1,
                      !.semantic_success = (outcome = "ok"),
                      !.semantic_store =
                          IF outcome = "ok"
                          THEN @ \cup {create.products[j].id : j \in 1..Len(create.products)}
                          ELSE @]
    /\ UNCHANGED unitVars
    /\ UNCHANGED <<pc, config, fusion, engine, scoring>>
    /\ UNCHANGED combineVars
    /\ UNCHANGED requestVars

\* graph_client.create_product (line 166; lines 203-206 for each product of a
\* batch): the id the graph service answers, or None on any exception.
CreateInGraph ==
    /\ pc = "create"
    /\ create.pc = "graph"
    /\ create.k <= Len(create.products)
    /\ \E outcome \in {"ok", "error"} :
         LET product_id == create.products[create.k].id
         IN  create' = [create EXCEPT
                          !.k = @ + 1,
                          !.graph_ids = Append(@, IF outcome = "ok" THEN product_id
                                                  ELSE NoneV),
                          !.graph_store = IF outcome = "ok" THEN @ \cup {product_id} ELSE @]
    /\ UNCHANGED unitVars
    /\ UNCHANGED <<pc, config, fusion, engine, scoring>>
    /\ UNCHANGED combineVars
    /\ UNCHANGED requestVars

\* Lines 168-176 and 208-218: the clients are closed and the summary returned.
RespondCreate ==
    /\ pc = "create"
    /\ create.pc = "graph"
    /\ create.k > Len(create.products)
    /\ create' = [create EXCEPT
                    !.pc = "done",
                    !.clients = "closed",
                    !.status = 200,
                    !.success = /\ create.semantic_success
                                /\ \A j \in 1..Len(create.graph_ids) :
                                       create.graph_ids[j] # NoneV]
    /\ UNCHANGED unitVars
    /\ UNCHANGED <<pc, config, fusion, engine, scoring>>
    /\ UNCHANGED combineVars
    /\ UNCHANGED requestVars

(***************************************************************************)
(* SpecCreate: one create request, single or batch, for every combination  *)
(* of products with and without an id and every outcome of the writes.     *)
(***************************************************************************)
InitCreate ==
    /\ pc = "create"
    /\ config = DefaultConfig
    /\ fusion = NoFusion
    /\ NoCombine
    /\ NoRequest
    /\ NoUnit
    /\ create \in CreateRequests
    /\ engine = NoEngine
    /\ scoring = NoScoring

NextCreate ==
    \/ ValidateCreate
    \/ AddToSemantic
    \/ CreateInGraph
    \/ RespondCreate

SpecCreate == InitCreate /\ [][NextCreate]_vars

\* C17: a create request, single or batch, in which some product has no "id"
\* key ends with status 400, and no product of it is written to the semantic
\* engine or to the graph service.
C17_MissingIdRejectsAll ==
    (\E k \in 1..Len(create.products) : create.products[k].id = Absent) =>
        /\ create.semantic_store = {}
        /\ create.graph_store = {}
        /\ create.pc \in {"request", "done"}
        /\ create.pc = "done" => create.status = 400

C17_Witness ==
    /\ create.pc = "done"
    /\ create.endpoint = "batch"
    /\ Len(create.products) = 2
    /\ create.products[1].id = "p1"
    /\ create.products[2].id = Absent
    /\ create.status = 400
    /\ create.semantic_store = {}
    /\ create.graph_store = {}

(***************************************************************************)
(* The semantic engine (semantic-engine/main.py and VectorStore).          *)
(*                                                                         *)
(* engine.points is the set of product ids whose point is in the Qdrant    *)
(* collection: _generate_point_id maps a product id to a UUID made of its  *)
(* MD5 hash, which is modelled as the id itself.  Each handler calls the   *)
(* store synchronously, so a request is one step.  engine.before is the    *)
(* collection as the last request found it.                                *)
(*                                                                         *)
(* Qdrant: upsert writes the points, delete by id removes the points it    *)
(* finds and raises nothing for an id it does not find, retrieve returns   *)
(* the points it finds; each call ends "ok" or "error" (an exception).     *)
(***************************************************************************)
EngineIds == {"p1", "p2", "p3"}

QdrantOutcomes == {"ok", "error"}

\* The bodies POST /api/v1/products is sent: a complete product, one without
\* the "id" key, one without any searchable text, and one with text but
\* without a key _build_payload indexes (KeyError).
ProductShapes == {"complete", "no_id", "no_text", "no_payload_key"}

\* VectorStore.delete_product: True unless client.delete raised.
VectorStoreDeleteProduct(points, product_id, qdrant) ==
    IF qdrant = "ok"
    THEN [success |-> TRUE, points |-> points \ {product_id}]
    ELSE [success |-> FALSE, points |-> points]

\* VectorStore.get_product: the point, or None (not found, or any exception).
VectorStoreGetProduct(points, product_id, qdrant) ==
    IF qdrant = "ok" /\ product_id \in points THEN product_id ELSE NoneV

\* VectorStore.upsert_products for the point of one product: the number
\* inserted and whether the batch is reported in errors.
VectorStoreUpsert(points, product_id, qdrant) ==
    IF qdrant = "ok"
    THEN [inserted |-> 1, errors |-> FALSE, points |-> points \cup {product_id}]
    ELSE [inserted |-> 0, errors |-> TRUE, points |-> points]

\* POST /api/v1/products (add_product).
EngineAddProduct ==
    /\ pc = "engine"
    /\ \E product_id \in EngineIds, shape \in ProductShapes, qdrant \in QdrantOutcomes :
         LET result == VectorStoreUpsert(engine.points, product_id, qdrant)
         IN  engine' =
               IF shape = "complete"
               THEN [points |-> result.points, before |-> engine.points, op |-> "add",
                     product_id |-> product_id, qdrant |-> qdrant, status |-> 200]
               ELSE [points |-> engine.points, before |-> engine.points, op |-> "add",
                     product_id |-> product_id, qdrant |-> "none",
                     status |-> IF shape = "no_payload_key" THEN 500 ELSE 400]
    /\ UNCHANGED unitVars
    /\ UNCHANGED <<pc, config, fusion, create, scoring>>
    /\ UNCHANGED combineVars
    /\ UNCHANGED requestVars

\* DELETE /api/v1/products/{product_id} (delete_product).
EngineDeleteProduct ==
    /\ pc = "engine"
    /\ \E product_id \in EngineIds, qdrant \in QdrantOutcomes :
         LET result == VectorStoreDeleteProduct(engine.points, product_id, qdrant)
         IN  engine' = [points |-> result.points, before |-> engine.points,
                        op |-> "delete", product_id |-> product_id, qdrant |-> qdrant,
                        status |-> IF result.success THEN 200 ELSE 404]
    /\ UNCHANGED unitVars
    /\ UNCHANGED <<pc, config, fusion, create, scoring>>
    /\ UNCHANGED combineVars
    /\ UNCHANGED requestVars

\* GET /api/v1/products/{product_id} (get_product).
EngineGetProduct ==
    /\ pc = "engine"
    /\ \E product_id \in EngineIds, qdrant \in QdrantOutcomes :
         LET product == VectorStoreGetProduct(engine.points, product_id, qdrant)
         IN  engine' = [points |-> engine.points, before |-> engine.points,
                        op |-> "get", product_id |-> product_id, qdrant |-> qdrant,
                        status |-> IF product # NoneV THEN 200 ELSE 404]
    /\ UNCHANGED unitVars
    /\ UNCHANGED <<pc, config, fusion, create, scoring>>
    /\ UNCHANGED combineVars
    /\ UNCHANGED requestVars

(***************************************************************************)
(* SpecEngine: any sequence of add, delete and get requests on an          *)
(* initially empty collection.                                             *)
(***************************************************************************)
InitEngine ==
    /\ pc = "engine"
    /\ config = DefaultConfig
    /\ fusion = NoFusion
    /\ NoCombine
    /\ NoRequest
    /\ NoService
    /\ NoUnit

NextEngine ==
    \/ EngineAddProduct
    \/ EngineDeleteProduct
    \/ EngineGetProduct

SpecEngine == InitEngine /\ [][NextEngine]_vars

\* C18: with the vector store reachable, DELETE of an id that is not stored is
\* answered 404 and DELETE of a stored id is answered 200; after a DELETE
\* answered 200 the id is gone, and GET of an id that is not stored is
\* answered 404.
C18_DeleteAbsentIsNotFound ==
    /\ (engine.op = "delete" /\ engine.qdrant = "ok") =>
           engine.status = IF engine.product_id \in engine.before THEN 200 ELSE 404
    /\ (engine.op = "delete" /\ engine.status = 200) =>
           engine.product_id \notin engine.points
    /\ (engine.op = "get" /\ engine.product_id \notin engine.points) =>
           engine.status = 404

(***************************************************************************)
(* SpecScore: score_relevance applied to every reply text of at most       *)
(* MaxText characters over ScoreAlphabet, to the texts of ScoreTexts, and  *)
(* to the failures of the call.                                            *)
(***************************************************************************)
\* The longest reply text drawn from ScoreAlphabet.
MaxText == 3

ScoreAlphabet == {"0", "1", ".", "-", "x"}

ScoreReplies ==
    {[kind |-> "summary_error", text |-> <<>>], [kind |-> "backend_error", text |-> <<>>]}
    \cup {[kind |-> "text", text |-> t] : t \in SeqsUpTo(ScoreAlphabet, MaxText) \cup ScoreTexts}

InitScore ==
    /\ pc = "score"
    /\ config = DefaultConfig
    /\ fusion = NoFusion
    /\ NoCombine
    /\ NoRequest
    /\ NoUnit
    /\ create = NoCreate
    /\ engine = NoEngine
    /\ scoring \in {[NoScoring EXCEPT !.pc = "call", !.backend = o] : o \in ScoreReplies}

ScoreOnce ==
    /\ pc = "score"
    /\ scoring.pc = "call"
    /\ scoring' = [scoring EXCEPT !.pc = "done", !.result = ScoreRelevance(scoring.backend)]
    /\ UNCHANGED unitVars
    /\ UNCHANGED <<pc, config, fusion, create, engine>>
    /\ UNCHANGED combineVars
    /\ UNCHANGED requestVars

NextScore == ScoreOnce

SpecScore == InitScore /\ [][NextScore]_vars

\* C20: for every reply text that contains a decimal-number-shaped substring
\* (digits, then optionally a dot and further digits), score_relevance returns
\* the value of the first such substring, taken as long as it goes, clamped
\* into [0,1].
AllDigits(t, a, b) == \A j \in a..b : t[j] \in Digits

\* t[p..q] is digits up to position m, then nothing more or a dot and digits.
DecimalShaped(t, p, m, q) ==
    /\ p <= m /\ m <= q /\ q <= Len(t)
    /\ AllDigits(t, p, m)
    /\ m = q \/ (t[m + 1] = "." /\ AllDigits(t, m + 2, q))

HasDecimal(t) == \E p, m, q \in 1..Len(t) : DecimalShaped(t, p, m, q)

\* The value of t[j..q], a digit left of the dot counting its power of ten
\* and a digit right of it its negative power, in millionths.
RECURSIVE PlaceValue(_, _, _, _)
PlaceValue(t, j, q, dot) ==
    IF j > q THEN 0
    ELSE (IF j < dot THEN DigitVal(t[j]) * Pow10(dot - 1 - j) * One
          ELSE IF j = dot \/ j - dot > 6 THEN 0
          ELSE DigitVal(t[j]) * (One \div Pow10(j - dot)))
         + PlaceValue(t, j + 1, q, dot)

FirstDecimalValue(t) ==
    LET starts == {p \in 1..Len(t) : \E m, q \in 1..Len(t) : DecimalShaped(t, p, m, q)}
        p == CHOOSE x \in starts : \A y \in starts : x <= y
        ends == {q \in 1..Len(t) : \E m \in 1..Len(t) : DecimalShaped(t, p, m, q)}
        q == CHOOSE x \in ends : \A y \in ends : x >= y
        dots == {d \in p..q : t[d] = "."}
        dot == IF dots = {} THEN q + 1 ELSE CHOOSE d \in dots : TRUE
    IN  PlaceValue(t, p, q, dot)

C20_FirstNumberClamped ==
    (/\ scoring.pc = "done"
     /\ scoring.backend.kind = "text"
     /\ HasDecimal(scoring.backend.text)) =>
        LET v == FirstDecimalValue(scoring.backend.text)
        IN  /\ ~scoring.result.raised
            /\ scoring.result.value = IF v > One THEN One ELSE IF v < 0 THEN 0 ELSE v

C20_Witness ==
    /\ scoring.pc = "done"
    /\ scoring.backend.kind = "text"
    /\ scoring.backend.text = <<"x", "1", "1">>
    /\ scoring.result.value = One

(***************************************************************************)
(* SpecCypher: generate_cypher applied to a failure of the backend, to a   *)
(* bare query, and to a query of up to MaxLines lines wrapped in every     *)
(* opening of Openings and every closing of Closings.                      *)
(***************************************************************************)
\* The longest query the backend answers, in lines.
MaxLines == 3

QueryLine(k) == IF k = 1 THEN <<"MATCH">> ELSE IF k = 2 THEN <<"RETURN">> ELSE <<"LIMIT">>

EnclosedQueries == {JoinLines([k \in 1..n |-> QueryLine(k)]) : n \in 1..MaxLines}

\* The opening fence: on its own line, with the language tag, on the line of
\* the query, with the tag on the line of the query, after an empty line.
Openings ==
    { <<Fence, NL>>, <<Fence, Tag, NL>>, <<Fence>>, <<Fence, Tag, SP>>,
      <<NL, Fence, Tag, NL>> }

\* The closing fence: on its own line, on the line of the query, missing,
\* followed by further text, followed by an empty line.
Closings ==
    { <<NL, Fence>>, <<Fence>>, <<>>, <<NL, Fence, NL, "note">>, <<NL, Fence, NL>> }

CypherCalls ==
    {[NoCypherCall EXCEPT !.pc = "call", !.user_query = <<"red", SP, "shoes">>,
                          !.backend = [kind |-> "error", text |-> <<>>]]}
    \cup {[NoCypherCall EXCEPT !.pc = "call", !.user_query = <<"red", SP, "shoes">>,
                               !.enclosed = q,
                               !.backend = [kind |-> "text", text |-> q]] :
              q \in EnclosedQueries}
    \cup {[NoCypherCall EXCEPT !.pc = "call", !.user_query = <<"red", SP, "shoes">>,
                               !.enclosed = q, !.opening = o, !.closing = c,
                               !.backend = [kind |-> "text", text |-> o \o q \o c]] :
              q \in EnclosedQueries, o \in Openings, c \in Closings}

InitCypher ==
    /\ pc = "cypher"
    /\ config = DefaultConfig
    /\ fusion = NoFusion
    /\ NoCombine
    /\ NoRequest
    /\ NoService
    /\ generation \in CypherCalls
    /\ upsert = NoUpsert
    /\ singleton = NoSingleton

GenerateCypherCall ==
    /\ pc = "cypher"
    /\ generation.pc = "call"
    /\ generation' = [generation EXCEPT
                        !.pc = "done",
                        !.result = GenerateCypher(generation.user_query,
                                                  generation.backend)]
    /\ UNCHANGED <<pc, config, fusion, upsert, singleton>>
    /\ UNCHANGED serviceVars
    /\ UNCHANGED combineVars
    /\ UNCHANGED requestVars

NextCypher == GenerateCypherCall

SpecCypher == InitCypher /\ [][NextCypher]_vars

\* C22: when the backend has wrapped the query in fences, generate_cypher
\* returns exactly the enclosed query, with no fence, no language tag and no
\* line lost, wherever the fences are placed.
C22_FenceStrippedExactly ==
    (/\ generation.pc = "done"
     /\ generation.backend.kind = "text"
     /\ generation.opening # <<>>) =>
        generation.result = generation.enclosed


(***************************************************************************)
(* SpecUpsert: VectorStore.upsert_products (vector_store.py lines 76-131)  *)
(* for every number of points, every batch size and every outcome of each  *)
(* attempt.  The store is a constructed one, whose client is set (the      *)
(* constructor raises otherwise, lines 38-52), so the guard of lines 82-83 *)
(* does not fire.                                                          *)
(***************************************************************************)
MaxPoints == 3
MaxBatchSize == 2

\* "max_retries = 3" (line 96).
max_retries == 3

\* "batch_size = batch_size or self.batch_size" (line 88); None and 0 are falsy.
BatchSizeOr(batch_size, self_batch_size) ==
    IF batch_size # 0 THEN batch_size ELSE self_batch_size

\* len(points[i:i + batch_size]) (line 94).
BatchLen(points, start, batch_size) == Min(batch_size, points - start)

\* "i//batch_size + 1" of the messages of lines 116 and 123.
BatchNumber(start, batch_size) == (start \div batch_size) + 1

\* "if attempt < max_retries - 1" (line 120): is a failed attempt retried.
ShouldRetryOnceMore(attempt) == attempt < max_retries

ShouldRetry(attempt) == attempt < max_retries - 1

\* The dict returned at lines 127-131.
UpsertResult(points, total_inserted, errors) ==
    [keys |-> {"inserted", "total", "errors"}, inserted |-> total_inserted,
     total |-> points, errors |-> errors]

\* The dict returned at line 86 for an empty list; its error entry names no
\* batch (0 here) and it has no "total" key.
NoProductsResult ==
    [keys |-> {"inserted", "errors"}, inserted |-> 0, total |-> 0, errors |-> <<0>>]

InitUpsert ==
    /\ pc = "upsert"
    /\ config = DefaultConfig
    /\ fusion = NoFusion
    /\ NoCombine
    /\ NoRequest
    /\ NoService
    /\ generation = NoCypherCall
    /\ singleton = NoSingleton
    /\ \E n \in 0..MaxPoints, arg \in 0..MaxBatchSize, own \in 1..MaxBatchSize :
         upsert = [NoUpsert EXCEPT !.pc = "called", !.points = n,
                                   !.batch_size_arg = arg, !.self_batch_size = own]

\* Lines 82-93: the early return for an empty list, else the set-up of the
\* loop over the batches.
UpsertEnter ==
    /\ pc = "upsert"
    /\ upsert.pc = "called"
    /\ upsert' =
         IF upsert.points = 0
         THEN [upsert EXCEPT !.pc = "returned", !.result = NoProductsResult]
         ELSE [upsert EXCEPT !.pc = "batch",
                             !.batch_size = BatchSizeOr(upsert.batch_size_arg,
                                                        upsert.self_batch_size),
                             !.start = 0, !.attempt = 0, !.attempts = <<<<>>>>,
                             !.total_inserted = 0, !.errors = <<>>]
    /\ UNCHANGED <<pc, config, fusion, generation, singleton>>
    /\ UNCHANGED combineVars
    /\ UNCHANGED requestVars
    /\ UNCHANGED serviceVars

\* One pass of "for attempt in range(max_retries)" (lines 97-125) on the batch
\* that starts at upsert.start: the conversion and the upsert either complete
\* or raise.  After the last pass on the last batch the function returns
\* (lines 127-131).
UpsertAttempt ==
    /\ pc = "upsert"
    /\ upsert.pc = "batch"
    /\ \E outcome \in {"ok", "error"} :
         LET b == Len(upsert.attempts)
             tried == [upsert.attempts EXCEPT ![b] = Append(@, outcome)]
             retry == outcome = "error" /\ ShouldRetry(upsert.attempt)
             inserted == IF outcome = "ok"
                         THEN upsert.total_inserted
                              + BatchLen(upsert.points, upsert.start, upsert.batch_size)
                         ELSE upsert.total_inserted
             errs == IF outcome = "error" /\ ~retry
                     THEN Append(upsert.errors,
                                 BatchNumber(upsert.start, upsert.batch_size))
                     ELSE upsert.errors
             next == upsert.start + upsert.batch_size
         IN  upsert' =
               IF retry
               THEN [upsert EXCEPT !.attempt = @ + 1, !.attempts = tried]
               ELSE IF next < upsert.points
               THEN [upsert EXCEPT !.start = next, !.attempt = 0,
                                   !.attempts = Append(tried, <<>>),
                                   !.total_inserted = inserted, !.errors = errs]
               ELSE [upsert EXCEPT !.pc = "returned", !.attempts = tried,
                                   !.total_inserted = inserted, !.errors = errs,
                                   !.result = UpsertResult(upsert.points, inserted, errs)]
    /\ UNCHANGED <<pc, config, fusion, generation, singleton>>
    /\ UNCHANGED combineVars
    /\ UNCHANGED requestVars
    /\ UNCHANGED serviceVars

NextUpsert == UpsertEnter \/ UpsertAttempt

SpecUpsert == InitUpsert /\ [][NextUpsert]_vars

\* The batches of a call, by number, the size of each, and how each ended.
BatchesTried == 1..Len(upsert.attempts)

SizeOfBatch(b) ==
    Min(upsert.batch_size, upsert.points - (b - 1) * upsert.batch_size)

BatchSucceeded(b) ==
    /\ upsert.attempts[b] # <<>>
    /\ upsert.attempts[b][Len(upsert.attempts[b])] = "ok"

BatchFailed(b) ==
    /\ Len(upsert.attempts[b]) = 3
    /\ \A k \in 1..3 : upsert.attempts[b][k] = "error"

RECURSIVE TotalSize(_)
TotalSize(batches) ==
    IF batches = {} THEN 0
    ELSE LET b == CHOOSE x \in batches : TRUE
         IN  SizeOfBatch(b) + TotalSize(batches \ {b})

AttemptsBounded ==
    \A b \in BatchesTried :
        /\ Len(upsert.attempts[b]) <= 3
        /\ \A k \in 1..(Len(upsert.attempts[b]) - 1) : upsert.attempts[b][k] = "error"

UpsertAccounting ==
    /\ \A b \in BatchesTried : BatchSucceeded(b) \/ BatchFailed(b)
    /\ upsert.result.inserted = TotalSize({b \in BatchesTried : BatchSucceeded(b)})
    /\ Len(upsert.result.errors) = Cardinality({b \in BatchesTried : BatchFailed(b)})
    /\ \A b \in BatchesTried :
           BatchFailed(b) <=> (\E k \in 1..Len(upsert.result.errors) :
                                   upsert.result.errors[k] = b)
    /\ "total" \in upsert.result.keys
    /\ upsert.result.total = upsert.points
    /\ upsert.result.inserted + TotalSize({b \in BatchesTried : BatchFailed(b)})
           = upsert.result.total

\* C29 as stated: for every list of points and every sequence of attempt
\* outcomes, each batch is attempted at most 3 times and never after its first
\* success, and at return inserted is the size of the succeeded batches,
\* errors has exactly one entry per batch that failed 3 times, and inserted
\* plus the size of the failed batches is total.
C29_UpsertAccounting ==
    /\ AttemptsBounded
    /\ (upsert.pc = "returned" => UpsertAccounting)

\* C29, for a non-empty list of points: the same bound on the attempts, and
\* the same accounting at return.
C29_UpsertAccountingNonEmpty ==
    /\ AttemptsBounded
    /\ (upsert.pc = "returned" /\ upsert.points > 0 => UpsertAccounting)

\* Three points in batches of two: the first batch succeeds at its second
\* attempt, the second fails three times.
C29_Witness ==
    /\ upsert.pc = "returned"
    /\ upsert.points = 3
    /\ upsert.attempts = <<<<"error", "ok">>, <<"error", "error", "error">>>>
    /\ upsert.result.inserted = 2
    /\ upsert.result.errors = <<2>>


(***************************************************************************)
(* SpecSingleton: get_vector_store (vector_store.py lines 275-284) called  *)
(* from several threads.  get_vector_store_svc (main.py lines 37-38) is a  *)
(* plain "def" dependency, which FastAPI runs in a worker thread per       *)
(* request, so first requests that arrive together call it concurrently.   *)
(* The function takes no lock; a thread can be preempted between any two   *)
(* of its steps, and the constructor does network I/O (lines 38-52).       *)
(* reset_vector_store is not called.                                       *)
(***************************************************************************)
ThreadAt(t, where) == pc = "singleton" /\ singleton.threads[t].pc = where

\* get_vector_store touches the global and its caller's locals only.
SingletonFrame ==
    /\ UNCHANGED <<pc, config, fusion, generation, upsert>>
    /\ UNCHANGED combineVars
    /\ UNCHANGED requestVars
    /\ UNCHANGED serviceVars

\* A request arrives and its dependency starts running in thread t.
GetVectorStoreCall(t) ==
    /\ ThreadAt(t, "idle")
    /\ singleton' = [singleton EXCEPT !.threads[t].pc = "check"]
    /\ SingletonFrame

\* "if _vector_store is None" (line 282).
CheckIsNone(t) ==
    /\ ThreadAt(t, "check")
    /\ singleton' = [singleton EXCEPT
                       !.threads[t].pc = IF singleton.vector_store = 0
                                         THEN "construct" ELSE "return"]
    /\ SingletonFrame

\* "VectorStore()" (line 283, right-hand side): a new instance, or the
\* exception of the constructor when the database cannot be reached.
ConstructVectorStore(t) ==
    /\ ThreadAt(t, "construct")
    /\ \E outcome \in {"ok", "error"} :
         singleton' =
           IF outcome = "ok"
           THEN [singleton EXCEPT !.constructed = @ + 1,
                                  !.threads[t].instance = singleton.constructed + 1,
                                  !.threads[t].pc = "assign"]
           ELSE [singleton EXCEPT !.threads[t].pc = "raised"]
    /\ SingletonFrame

\* "_vector_store = ..." (line 283, the store to the global).
AssignGlobal(t) ==
    /\ ThreadAt(t, "assign")
    /\ singleton' = [singleton EXCEPT !.vector_store = singleton.threads[t].instance,
                                      !.threads[t].pc = "return"]
    /\ SingletonFrame

\* "return _vector_store" (line 284): the global as it is now.
ReturnGlobal(t) ==
    /\ ThreadAt(t, "return")
    /\ singleton' = [singleton EXCEPT !.threads[t].got = singleton.vector_store,
                                      !.threads[t].pc = "returned"]
    /\ SingletonFrame

InitSingleton ==
    /\ pc = "singleton"
    /\ config = DefaultConfig
    /\ fusion = NoFusion
    /\ NoCombine
    /\ NoRequest
    /\ NoService
    /\ generation = NoCypherCall
    /\ upsert = NoUpsert
    /\ singleton = NoSingleton

NextSingleton ==
    \E t \in Threads :
        \/ GetVectorStoreCall(t)
        \/ CheckIsNone(t)
        \/ ConstructVectorStore(t)
        \/ AssignGlobal(t)
        \/ ReturnGlobal(t)

SpecSingleton == InitSingleton /\ [][NextSingleton]_vars

\* C30: under concurrent first calls of get_vector_store at most one
\* VectorStore is ever constructed, and all callers that have returned hold
\* the same instance.
C30_SingleInstance ==
    /\ singleton.constructed <= 1
    /\ \A t, u \in Threads :
           ThreadAt(t, "returned") /\ ThreadAt(u, "returned")
               => singleton.threads[t].got = singleton.threads[u].got

====
